---- MODULE Spec2Model ----
(***************************************************************************)
(* Model of the t0 Simulator (src/simulator.go): a Simulator runs its      *)
(* registered processes one after another in a worker goroutine under a    *)
(* root context.WithTimeout, while Simulator.Run selects between the root  *)
(* context's Done channel and the worker's done channel.                   *)
(*                                                                         *)
(* Time is a millisecond clock, now.  Statements take no time on that      *)
(* clock: time passes only while the worker is inside time.Sleep and the   *)
(* main goroutine is blocked in the select (or has returned), and it then  *)
(* passes up to the next instant at which a sleep ends or the root         *)
(* deadline is reached.  Both goroutines are otherwise interleaved freely, *)
(* so a sleep that ends at the very instant of the root deadline races     *)
(* with the expiry branch.  Weights are fractions <<num, den>> with a      *)
(* power of two as den: float64 holds them, and their products with the   *)
(* millisecond counts of the model, exactly.                              *)
(***************************************************************************)
EXTENDS Integers, Sequences, FiniteSets, TLC

\* ---------------------------------------------------------------- bounds
MaxSteps == 3

\* Re-running a Simulator: calls of Run, and length of the step lists.
MaxRuns == 2
MaxRerunSteps == 2

\* Length of the step lists of configurations that need not be valid.
MaxAnySteps == 2

\* Input domains of a valid configuration: positive root timeouts,
\* non-negative fixed timeouts, weights in (0,1].
Timeouts == {50, 100, 600}
FixedTimeouts == {20, 100}
Weights == {<<1, 2>>, <<3, 4>>}
RerunTimeouts == {50}

\* Values the constructors accept, valid or not: NewSimulator takes any int,
\* WithDynamicContext any float64.
AnyTimeouts == {-10, 0, 50}
AnyWeights == {<<-1, 2>>, <<0, 1>>, <<1, 2>>, <<3, 2>>}

\* ------------------------------------------------------------- constants
timeoutThreshold == 30
NanosPerMilli == 1000000

\* ----------------------------------------------------------------- state
VARIABLES
    timeout,        \* Simulator.timeout
    process,        \* Simulator.process: the registered steps, in order
    isExecuted,     \* Function.isExecuted of each registered step
    now,            \* the clock, in ms since Run was called
    ctx,            \* the root context of the run
    mpc,            \* position of Simulator.Run (the main goroutine)
    k,              \* index of the range loop of the ctx.Done() branch
    wpc,            \* position of the worker goroutine
    idx,            \* index of the worker's range loop
    wakeAt,         \* instant at which the worker's time.Sleep returns
    allotted,       \* the timeout the running step sleeps for and reports
    dynamicContext, \* the derived context of the running weighted step
    dynLive,        \* derived contexts whose esCancel has not been called
    done,           \* the buffered channel done (capacity 1)
    w,              \* what has been written to the tabwriter, in order
    out,            \* what w.Flush() has emitted
    flagsAtExpiry,  \* history: isExecuted when the ctx.Done() branch fired
    runs            \* history: how many times Run has been called

vars == <<timeout, process, isExecuted, now, ctx, mpc, k, wpc, idx, wakeAt,
          allotted, dynamicContext, dynLive, done, w, out, flagsAtExpiry,
          runs>>

\* --------------------------------------------------------------- helpers
Min(S) == CHOOSE x \in S : \A y \in S : x <= y

\* Go's integer division and float-to-integer conversion truncate toward 0.
Trunc(n, d) == IF n >= 0 THEN n \div d ELSE -((-n) \div d)

\* Steps: WithTimeout(timeout) and WithDynamicContext(weight, isPriority).
FunctionWithTimeout(t) ==
    [kind |-> "timeout", timeout |-> t, weight |-> <<0, 1>>, isPriority |-> FALSE]

FunctionWithDynamiContext(wt, p) ==
    [kind |-> "dynamic", timeout |-> 0, weight |-> wt, isPriority |-> p]

Proccess ==
    {FunctionWithTimeout(t) : t \in FixedTimeouts}
        \cup {FunctionWithDynamiContext(wt, p) : wt \in Weights, p \in BOOLEAN}

StepLists == UNION {[1..n -> Proccess] : n \in 0..MaxSteps}

\* context.Background() has no deadline.
Background == [hasDeadline |-> FALSE, deadline |-> 0]

\* time.Time.UnixNano of an instant of the clock.
UnixNano(t) == t * NanosPerMilli

\* getDeadline(ctx) evaluated at instant t.
getDeadline(c, t) == Trunc(UnixNano(c.deadline) - UnixNano(t), NanosPerMilli)

\* Mutant: a derived context that takes t + d whatever its parent's deadline.
WithTimeoutUnclamped(parent, d, t) == [hasDeadline |-> TRUE, deadline |-> t + d]

\* context.WithTimeout(parent, d ms) called at instant t: the deadline is
\* t + d unless the parent's deadline is earlier, which is then kept.
WithTimeout(parent, d, t) ==
    IF parent.hasDeadline /\ parent.deadline < t + d
    THEN [hasDeadline |-> TRUE, deadline |-> parent.deadline]
    ELSE [hasDeadline |-> TRUE, deadline |-> t + d]

\* Mutant: the escalation no longer asks whether the step is a priority step.
newTimeoutAnyPriority(tmo, percentage, isPriority) ==
    IF tmo * percentage[1] < timeoutThreshold * percentage[2]
    THEN tmo
    ELSE Trunc(tmo * percentage[1], percentage[2])

\* Mutant: no escalation, every step gets its truncated share.
newTimeoutNoEscalation(tmo, percentage, isPriority) ==
    Trunc(tmo * percentage[1], percentage[2])

\* Mutant: a priority step below the threshold is raised to the threshold
\* instead of to the whole remaining budget.
newTimeoutClampToThreshold(tmo, percentage, isPriority) ==
    IF tmo * percentage[1] < timeoutThreshold * percentage[2] /\ isPriority = TRUE
    THEN timeoutThreshold
    ELSE Trunc(tmo * percentage[1], percentage[2])

\* newTimeout of getNewContext after the conversion time.Duration(newTimeout):
\* float64(timeout) * percentage, replaced by float64(timeout) when it is
\* below the threshold and the step is a priority step, then truncated.
newTimeout(tmo, percentage, isPriority) ==
    IF tmo * percentage[1] < timeoutThreshold * percentage[2] /\ isPriority = TRUE
    THEN tmo
    ELSE Trunc(tmo * percentage[1], percentage[2])

getNewContext(c, percentage, isPriority, t) ==
    WithTimeout(c, newTimeout(getDeadline(c, t), percentage, isPriority), t)

\* Records written to the tabwriter.
Row(kind, name, a, b) == [kind |-> kind, name |-> name, a |-> a, b |-> b]

\* ------------------------------------------------------------------ Init
Init ==
    /\ timeout \in Timeouts
    /\ process \in StepLists
    /\ isExecuted = [i \in 1..Len(process) |-> FALSE]
    /\ now = 0
    /\ ctx = Background
    /\ mpc = "pending"
    /\ k = 0
    /\ wpc = "idle"
    /\ idx = 0
    /\ wakeAt = 0
    /\ allotted = 0
    /\ dynamicContext = Background
    /\ dynLive = 0
    /\ done = <<>>
    /\ w = <<>>
    /\ out = <<>>
    /\ flagsAtExpiry = <<>>
    /\ runs = 0

\* ------------------------------------------------- Simulator.Run (main)
\* Mutant: the root timeout is taken in nanoseconds (no * time.Millisecond),
\* which is no time at all on the clock.
RunNanoseconds ==
    /\ mpc = "pending"
    /\ w' = <<Row("init", 0, timeout, timeout)>>
    /\ ctx' = WithTimeout(Background, 0, now)
    /\ done' = <<>>
    /\ wpc' = IF Len(process) = 0 THEN "send" ELSE "run"
    /\ idx' = 1
    /\ mpc' = "select"
    /\ runs' = runs + 1
    /\ UNCHANGED <<timeout, process, isExecuted, now, k, wakeAt, allotted,
                   dynamicContext, dynLive, out, flagsAtExpiry>>

\* Lines 122-138: a new tabwriter with the header and Init row, the root
\* context, the done channel, go func.
Run ==
    /\ mpc = "pending"
    /\ w' = <<Row("init", 0, timeout, timeout)>>
    /\ ctx' = WithTimeout(Background, timeout, now)
    /\ done' = <<>>
    /\ wpc' = IF Len(process) = 0 THEN "send" ELSE "run"
    /\ idx' = 1
    /\ mpc' = "select"
    /\ runs' = runs + 1
    /\ UNCHANGED <<timeout, process, isExecuted, now, k, wakeAt, allotted,
                   dynamicContext, dynLive, out, flagsAtExpiry>>

\* case <-ctx.Done(): the root deadline has been reached.
SelectExpired ==
    /\ mpc = "select"
    /\ now >= ctx.deadline
    /\ w' = Append(w, Row("expired", 0, 0, 0))
    /\ k' = 1
    /\ mpc' = "expired"
    /\ flagsAtExpiry' = isExecuted
    /\ UNCHANGED <<runs, timeout, process, isExecuted, now, ctx, wpc, idx, wakeAt,
                   allotted, dynamicContext, dynLive, done, out>>

\* One iteration of the range loop of the ctx.Done() branch.
ExpiredLoop ==
    /\ mpc = "expired"
    /\ k <= Len(process)
    /\ w' = IF ~isExecuted[k] THEN Append(w, Row("notrun", k, 0, 0)) ELSE w
    /\ k' = k + 1
    /\ UNCHANGED <<runs, timeout, process, isExecuted, now, ctx, mpc, wpc, idx,
                   wakeAt, allotted, dynamicContext, dynLive, done, out,
                   flagsAtExpiry>>

\* Mutant: the select sits in a loop, so Run selects again after the
\* ctx.Done() branch.
ExpiredEndSelectsAgain ==
    /\ mpc = "expired"
    /\ k > Len(process)
    /\ mpc' = "select"
    /\ UNCHANGED <<runs, timeout, process, isExecuted, now, ctx, k, wpc, idx, wakeAt,
                   allotted, dynamicContext, dynLive, done, w, out,
                   flagsAtExpiry>>

\* The range loop of the ctx.Done() branch is over.
ExpiredEnd ==
    /\ mpc = "expired"
    /\ k > Len(process)
    /\ mpc' = "flush"
    /\ UNCHANGED <<runs, timeout, process, isExecuted, now, ctx, k, wpc, idx, wakeAt,
                   allotted, dynamicContext, dynLive, done, w, out,
                   flagsAtExpiry>>

\* Mutant: the done branch sits in a loop and selects again.
SelectDoneSelectsAgain ==
    /\ mpc = "select"
    /\ done # <<>>
    /\ w' = Append(w, Row("completed", 0, Head(done), 0))
    /\ done' = Tail(done)
    /\ mpc' = "select"
    /\ UNCHANGED <<runs, timeout, process, isExecuted, now, ctx, k, wpc, idx, wakeAt,
                   allotted, dynamicContext, dynLive, out, flagsAtExpiry>>

\* case timeLeft := <-done.
SelectDone ==
    /\ mpc = "select"
    /\ done # <<>>
    /\ w' = Append(w, Row("completed", 0, Head(done), 0))
    /\ done' = Tail(done)
    /\ mpc' = "flush"
    /\ UNCHANGED <<runs, timeout, process, isExecuted, now, ctx, k, wpc, idx, wakeAt,
                   allotted, dynamicContext, dynLive, out, flagsAtExpiry>>

\* w.Flush() and return.
Flush ==
    /\ mpc = "flush"
    /\ out' = w
    /\ mpc' = "returned"
    /\ UNCHANGED <<runs, timeout, process, isExecuted, now, ctx, k, wpc, idx, wakeAt,
                   allotted, dynamicContext, dynLive, done, w, flagsAtExpiry>>

\* ------------------------------------------------------ worker goroutine
\* Mutant: the range loop stops one step early.
NextStepStopsEarly == IF idx + 1 >= Len(process) THEN "send" ELSE "run"

\* What the worker does after step idx: the next step, or the send on done.
NextStep == IF idx + 1 > Len(process) THEN "send" ELSE "run"

\* Mutant: a fixed-timeout step that sleeps no longer than the root budget
\* has left.
TimeoutSleepClamped ==
    /\ wpc = "run"
    /\ process[idx].kind = "timeout"
    /\ allotted' = process[idx].timeout
    /\ wakeAt' = now + Min({process[idx].timeout, getDeadline(ctx, now)})
    /\ wpc' = "sleeping"
    /\ UNCHANGED <<runs, timeout, process, isExecuted, now, ctx, mpc, k, idx,
                   dynamicContext, dynLive, done, w, out, flagsAtExpiry>>

\* Mutant: a fixed-timeout step that is skipped (sleeps for no time) once
\* the root budget is used up.
TimeoutSleepSkipsExpired ==
    /\ wpc = "run"
    /\ process[idx].kind = "timeout"
    /\ allotted' = process[idx].timeout
    /\ wakeAt' = IF getDeadline(ctx, now) <= 0 THEN now
                 ELSE now + process[idx].timeout
    /\ wpc' = "sleeping"
    /\ UNCHANGED <<runs, timeout, process, isExecuted, now, ctx, mpc, k, idx,
                   dynamicContext, dynLive, done, w, out, flagsAtExpiry>>

\* FunctionWithTimeout.Run, line 60: time.Sleep(f.timeout ms) begins.
TimeoutSleep ==
    /\ wpc = "run"
    /\ process[idx].kind = "timeout"
    /\ allotted' = process[idx].timeout
    /\ wakeAt' = now + process[idx].timeout
    /\ wpc' = "sleeping"
    /\ UNCHANGED <<runs, timeout, process, isExecuted, now, ctx, mpc, k, idx,
                   dynamicContext, dynLive, done, w, out, flagsAtExpiry>>

\* Mutant: the step sleeps for what is left of ctx, not of dynamicContext.
DynamicSleepParent ==
    /\ wpc = "run"
    /\ process[idx].kind = "dynamic"
    /\ LET dc == getNewContext(ctx, process[idx].weight, process[idx].isPriority, now)
       IN /\ dynamicContext' = dc
          /\ allotted' = getDeadline(ctx, now)
          /\ wakeAt' = now + getDeadline(ctx, now)
    /\ dynLive' = dynLive + 1
    /\ wpc' = "sleeping"
    /\ UNCHANGED <<runs, timeout, process, isExecuted, now, ctx, mpc, k, idx, done,
                   w, out, flagsAtExpiry>>

\* FunctionWithDynamiContext.Run, lines 83-86: derive the context, read its
\* remaining time, time.Sleep(timeout ms) begins.
DynamicSleep ==
    /\ wpc = "run"
    /\ process[idx].kind = "dynamic"
    /\ LET dc == getNewContext(ctx, process[idx].weight, process[idx].isPriority, now)
       IN /\ dynamicContext' = dc
          /\ allotted' = getDeadline(dc, now)
          /\ wakeAt' = now + getDeadline(dc, now)
    /\ dynLive' = dynLive + 1
    /\ wpc' = "sleeping"
    /\ UNCHANGED <<runs, timeout, process, isExecuted, now, ctx, mpc, k, idx, done,
                   w, out, flagsAtExpiry>>

\* time.Sleep returns (at once for a duration <= 0); f.isExecuted = true.
MarkExecuted ==
    /\ wpc = "sleeping"
    /\ now >= wakeAt
    /\ isExecuted' = [isExecuted EXCEPT ![idx] = TRUE]
    /\ wpc' = "print"
    /\ UNCHANGED <<runs, timeout, process, now, ctx, mpc, k, idx, wakeAt, allotted,
                   dynamicContext, dynLive, done, w, out, flagsAtExpiry>>

\* Mutant: the range loop skips the step after the one that returned.
PrintRowSkipsNext ==
    /\ wpc = "print"
    /\ w' = Append(w, Row("row", idx, allotted, getDeadline(ctx, now)))
    /\ dynLive' = IF process[idx].kind = "dynamic" THEN dynLive - 1 ELSE dynLive
    /\ wpc' = IF idx + 2 > Len(process) THEN "send" ELSE "run"
    /\ idx' = idx + 2
    /\ UNCHANGED <<runs, timeout, process, isExecuted, now, ctx, mpc, k, wakeAt,
                   allotted, dynamicContext, done, out, flagsAtExpiry>>

\* Mutant: esCancel is not deferred and never called.
PrintRowLeaks ==
    /\ wpc = "print"
    /\ w' = Append(w, Row("row", idx, allotted, getDeadline(ctx, now)))
    /\ wpc' = IF idx + 1 > Len(process) THEN "send" ELSE "run"
    /\ idx' = idx + 1
    /\ UNCHANGED <<runs, timeout, process, isExecuted, now, ctx, mpc, k, wakeAt,
                   allotted, dynamicContext, dynLive, done, out, flagsAtExpiry>>

\* fmt.Fprintf(w, rowFormat, f.name, timeout, getDeadline(ctx)); the deferred
\* esCancel of a weighted step runs; the range loop moves on.
PrintRow ==
    /\ wpc = "print"
    /\ w' = Append(w, Row("row", idx, allotted, getDeadline(ctx, now)))
    /\ dynLive' = IF process[idx].kind = "dynamic" THEN dynLive - 1 ELSE dynLive
    /\ wpc' = NextStep
    /\ idx' = idx + 1
    /\ UNCHANGED <<runs, timeout, process, isExecuted, now, ctx, mpc, k, wakeAt,
                   allotted, dynamicContext, done, out, flagsAtExpiry>>

\* Mutant: the worker signals completion with the configured root timeout.
SendDoneConfigured ==
    /\ wpc = "send"
    /\ Len(done) < 1
    /\ done' = Append(done, timeout)
    /\ wpc' = "exit"
    /\ UNCHANGED <<runs, timeout, process, isExecuted, now, ctx, mpc, k, idx, wakeAt,
                   allotted, dynamicContext, dynLive, w, out, flagsAtExpiry>>

\* done <- getDeadline(ctx): the buffer has room, the send never blocks.
SendDone ==
    /\ wpc = "send"
    /\ Len(done) < 1
    /\ done' = Append(done, getDeadline(ctx, now))
    /\ wpc' = "exit"
    /\ UNCHANGED <<runs, timeout, process, isExecuted, now, ctx, mpc, k, idx, wakeAt,
                   allotted, dynamicContext, dynLive, w, out, flagsAtExpiry>>

\* ------------------------------------------------------------------ time
WorkerBlocked == wpc \in {"idle", "exit"} \/ (wpc = "sleeping" /\ now < wakeAt)

MainBlocked ==
    mpc = "returned" \/ (mpc = "select" /\ done = <<>> /\ now < ctx.deadline)

Pending ==
    (IF wpc = "sleeping" THEN {wakeAt} ELSE {})
        \cup (IF mpc = "select" THEN {ctx.deadline} ELSE {})

\* Both goroutines are blocked: the clock moves to the next timer.
Advance ==
    /\ WorkerBlocked
    /\ MainBlocked
    /\ {t \in Pending : t > now} # {}
    /\ now' = Min({t \in Pending : t > now})
    /\ UNCHANGED <<runs, timeout, process, isExecuted, ctx, mpc, k, wpc, idx, wakeAt,
                   allotted, dynamicContext, dynLive, done, w, out,
                   flagsAtExpiry>>

Next ==
    \/ Run
    \/ SelectExpired
    \/ ExpiredLoop
    \/ ExpiredEnd
    \/ SelectDone
    \/ Flush
    \/ TimeoutSleep
    \/ DynamicSleep
    \/ MarkExecuted
    \/ PrintRow
    \/ SendDone
    \/ Advance

Spec == Init /\ [][Next]_vars

\* The Go scheduler runs every goroutine that can run and the runtime fires
\* every timer that is due: some step is always taken while one is possible.
SpecFair == Spec /\ WF_vars(Next)

\* ------------------------------------------------ running a Simulator again
\* An argument of RegisterFunctions after a run: each element is a step made
\* by NewFunction(...) for this call, or one of the step objects registered
\* before (each at most once).
NewStep(p) == [old |-> 0, step |-> p]

OldStep(i) == [old |-> i, step |-> process[i]]

Arguments ==
    LET elems == {NewStep(p) : p \in Proccess}
                     \cup {OldStep(i) : i \in 1..Len(process)}
        lists == UNION {[1..n -> elems] : n \in 1..MaxRerunSteps}
    IN {ps \in lists :
           \A i, j \in 1..Len(ps) : (i # j /\ ps[i].old # 0) => ps[i].old # ps[j].old}

\* s.process = ps, called once the previous Run has returned and its worker
\* has ended.  A step object keeps its isExecuted field.
RegisterFunctions ==
    /\ mpc = "returned"
    /\ wpc = "exit"
    /\ runs < MaxRuns
    /\ \E ps \in Arguments :
          /\ process' = [i \in 1..Len(ps) |-> ps[i].step]
          /\ isExecuted' = [i \in 1..Len(ps) |->
                               IF ps[i].old = 0 THEN FALSE ELSE isExecuted[ps[i].old]]
    /\ mpc' = "pending"
    /\ UNCHANGED <<runs, timeout, now, ctx, k, wpc, idx, wakeAt, allotted,
                   dynamicContext, dynLive, done, w, out, flagsAtExpiry>>

InitRerun ==
    /\ Init
    /\ timeout \in RerunTimeouts
    /\ Len(process) <= MaxRerunSteps

NextRerun == Next \/ RegisterFunctions

SpecRerun == InitRerun /\ [][NextRerun]_vars

\* ------------------------------------------- configurations of any value
\* NewSimulator, WithTimeout and WithDynamicContext store their arguments as
\* they are: nothing is checked.
AnyProccess ==
    {FunctionWithTimeout(t) : t \in FixedTimeouts}
        \cup {FunctionWithDynamiContext(wt, p) : wt \in AnyWeights, p \in BOOLEAN}

InitAny ==
    /\ timeout \in AnyTimeouts
    /\ process \in UNION {[1..n -> AnyProccess] : n \in 0..MaxAnySteps}
    /\ isExecuted = [i \in 1..Len(process) |-> FALSE]
    /\ now = 0
    /\ ctx = Background
    /\ mpc = "pending"
    /\ k = 0
    /\ wpc = "idle"
    /\ idx = 0
    /\ wakeAt = 0
    /\ allotted = 0
    /\ dynamicContext = Background
    /\ dynLive = 0
    /\ done = <<>>
    /\ w = <<>>
    /\ out = <<>>
    /\ flagsAtExpiry = <<>>
    /\ runs = 0

SpecAny == InitAny /\ [][Next]_vars

TypeOK ==
    /\ mpc \in {"pending", "select", "expired", "flush", "returned"}
    /\ wpc \in {"idle", "run", "sleeping", "print", "send", "exit"}
    /\ Len(done) <= 1
\* ------------------------------------------------------- report queries
Outcomes(s) == SelectSeq(s, LAMBDA r : r.kind \in {"expired", "completed"})

Rows(s) == SelectSeq(s, LAMBDA r : r.kind = "row")

Names(s) == [i \in 1..Len(s) |-> s[i].name]

\* The names listed after "Time out reached with unexecuted function:".
NotRun(s) == Names(SelectSeq(s, LAMBDA r : r.kind = "notrun"))

IsExpired(s) == Len(Outcomes(s)) = 1 /\ Outcomes(s)[1].kind = "expired"

IsCompleted(s) == Len(Outcomes(s)) = 1 /\ Outcomes(s)[1].kind = "completed"

\* Remaining(ms) printed on the line before row i of the step rows: by the
\* Init row for the first step, by the previous step's row otherwise.
RemainingBefore(s, i) == IF i = 1 THEN timeout ELSE Rows(s)[i - 1].b

\* The indices of f, in order, at which f is FALSE.
RECURSIVE FalseAt(_, _)
FalseAt(f, i) ==
    IF i > Len(f) THEN <<>>
    ELSE (IF f[i] THEN <<>> ELSE <<i>>) \o FalseAt(f, i + 1)

\* Total time the steps of the rows r occupied: each slept for its timeout,
\* a timeout <= 0 for no time.
RECURSIVE Occupied(_)
Occupied(r) ==
    IF r = <<>> THEN 0
    ELSE (IF Head(r).a > 0 THEN Head(r).a ELSE 0) + Occupied(Tail(r))

\* --------------------------------------------------------------- claims

\* C1: every run reports exactly one terminal outcome record, Completed or
\* Expired: none before the select, one from the moment a branch is taken,
\* never a second one, whatever the other goroutine does afterwards.
ExactlyOneOutcome ==
    /\ Len(Outcomes(w)) <= 1
    /\ mpc \in {"pending", "select"} => Len(Outcomes(w)) = 0
    /\ mpc \in {"expired", "flush", "returned"} => Len(Outcomes(w)) = 1
    /\ mpc = "returned" => Len(Outcomes(out)) = 1

\* The last step finished at the instant of the root deadline, the worker's
\* completion signal is in the channel, and Run returned having reported
\* Expired: the signal was ignored.
ExactlyOneOutcomeWitness ==
    /\ mpc = "returned"
    /\ IsExpired(out)
    /\ done = <<0>>
    /\ Len(process) > 0

\* C2 (as claimed): while the ctx.Done() branch is reading the isExecuted
\* flags, the worker cannot write one.
NoFlagWriteWhileExpiredReads ==
    mpc = "expired" => ~(wpc = "sleeping" /\ now >= wakeAt)

\* C3 (as claimed): the names listed on Expired are exactly the steps whose
\* flag was false when the ctx.Done() branch fired, in configured order.
NotRunIsFlagsAtExpiry ==
    (mpc \in {"flush", "returned"} /\ IsExpired(w))
        => NotRun(w) = FalseAt(flagsAtExpiry, 1)

\* C4: when the first step is a fixed-timeout step longer than the root
\* timeout, the outcome is Expired and every configured step is listed as
\* not run, in configured order.
OverrunningFirst ==
    /\ Len(process) > 0
    /\ process[1].kind = "timeout"
    /\ process[1].timeout > timeout

OverrunExpiresWithAllSteps ==
    OverrunningFirst =>
        /\ ~IsCompleted(w)
        /\ mpc \in {"flush", "returned"} =>
              (IsExpired(w) /\ NotRun(w) = [i \in 1..Len(process) |-> i])
        /\ mpc = "returned" =>
              (IsExpired(out) /\ NotRun(out) = [i \in 1..Len(process) |-> i])

OverrunExpiresWitness ==
    /\ OverrunningFirst
    /\ Len(process) = MaxSteps
    /\ mpc = "returned"
    /\ NotRun(out) = [i \in 1..Len(process) |-> i]

\* C5: on Completed the reported time left is the root budget remaining when
\* the last step returned: the remaining value of the last step's row (the
\* root timeout when there is no step), which is the root timeout minus the
\* time the steps occupied.
CompletedReportsRemaining ==
    LET r == Rows(w)
        o == Outcomes(w)
    IN (Len(o) = 1 /\ o[1].kind = "completed") =>
           /\ o[1].a = IF r = <<>> THEN timeout ELSE r[Len(r)].b
           /\ o[1].a = timeout - Occupied(r)
           /\ Len(r) = Len(process)

CompletedReportsRemainingWitness ==
    /\ mpc = "returned"
    /\ IsCompleted(out)
    /\ Len(process) = MaxSteps
    /\ \E i \in 1..Len(process) : process[i].kind = "dynamic"
    /\ Outcomes(out)[1].a > 0
    /\ Outcomes(out)[1].a < timeout

\* C6: the steps run one at a time in configured order: row i of the report
\* is the row of step i, and while the worker is in step idx every earlier
\* step has returned (flag set, row written) and no later step has begun.
SequentialInOrder ==
    LET r == Rows(w)
    IN /\ \A i \in 1..Len(r) : r[i].name = i
       /\ wpc \in {"run", "sleeping", "print"} =>
             /\ Len(r) = idx - 1
             /\ \A j \in 1..Len(process) : (j < idx => isExecuted[j])
             /\ \A j \in 1..Len(process) : (j > idx => ~isExecuted[j])
       /\ wpc \in {"send", "exit"} => Len(r) = Len(process)

SequentialInOrderWitness ==
    /\ Len(process) = MaxSteps
    /\ Len(Rows(w)) = MaxSteps
    /\ process[1].kind = "dynamic"
    /\ process[2].kind = "timeout"
    /\ process[3].kind = "dynamic"

\* C7 (as claimed): no step row is written after the terminal outcome record.
NoRowAfterOutcome ==
    \A i \in 1..Len(w) :
        w[i].kind \in {"expired", "completed"} =>
            \A j \in (i + 1)..Len(w) : w[j].kind # "row"

\* C8: a non-priority weighted step that starts with parent remaining >= 0
\* reports, and sleeps for, floor(parentRemaining * weight).
IsWeighted(i, p) ==
    process[i].kind = "dynamic" /\ process[i].isPriority = p

Share(i, remaining) == (remaining * process[i].weight[1]) \div process[i].weight[2]

DerivedNotLaterThanParent ==
    dynamicContext.hasDeadline => dynamicContext.deadline <= ctx.deadline

\* A non-priority step derived its context after the root deadline passed:
\* now + newTimeout would be later than the root deadline.
DerivedNotLaterThanParentWitness ==
    /\ dynLive > 0
    /\ wpc = "sleeping"
    /\ ~process[idx].isPriority
    /\ now > ctx.deadline
    /\ dynamicContext.deadline = ctx.deadline

\* C11 (as claimed): after RegisterFunctions and a second Run, the report is
\* that of the new configuration alone: it starts with the Init row of a
\* fresh root budget, holds rows of this run's worker only, and, as in a
\* first run, lists every step as not run when the first step is a
\* fixed-timeout step longer than the root timeout.
SecondRunIsolated ==
    (runs = 2 /\ mpc # "pending") =>
        /\ w[1] = Row("init", 0, timeout, timeout)
        /\ Len(Rows(w)) <= Len(process)
        /\ \A i \in 1..Len(Rows(w)) : Rows(w)[i].name = i
        /\ (OverrunningFirst /\ mpc \in {"flush", "returned"}) =>
              (IsExpired(w) /\ NotRun(w) = [i \in 1..Len(process) |-> i])

\* C12 (as claimed): a configuration with a root timeout <= 0, or with a
\* weighted step whose weight is <= 0 or > 1, is rejected when it is made: no
\* run starts from it.
Malformed ==
    \/ timeout <= 0
    \/ \E i \in 1..Len(process) :
          /\ process[i].kind = "dynamic"
          /\ \/ process[i].weight[1] <= 0
             \/ process[i].weight[1] > process[i].weight[2]

MalformedNeverRuns == Malformed => (mpc = "pending" /\ wpc = "idle")

\* C13: a derived context is live only while the weighted step that derived
\* it is running, so at most one is live, and none is once that step has
\* returned, also for steps run after the root deadline.
DerivedReleasedOnReturn ==
    /\ dynLive \in {0, 1}
    /\ dynLive = 1 =>
          (wpc \in {"sleeping", "print"} /\ process[idx].kind = "dynamic")
    /\ (wpc \in {"sleeping", "print"} /\ process[idx].kind = "dynamic") =>
          dynLive = 1

\* A weighted step that began after the root deadline has returned and
\* nothing is live.
DerivedReleasedWitness ==
    /\ wpc \in {"run", "send"}
    /\ idx > 1
    /\ process[idx - 1].kind = "dynamic"
    /\ Len(Rows(w)) = idx - 1
    /\ Rows(w)[idx - 1].a < 0
    /\ dynLive = 0

\* C14: when every step is a fixed-timeout step and the timeouts sum to less
\* than the root timeout, the run never expires and reports Completed with
\* the root timeout minus that sum.
RECURSIVE FixedSum(_)
FixedSum(ps) == IF ps = <<>> THEN 0 ELSE Head(ps).timeout + FixedSum(Tail(ps))

ClearMargin ==
    /\ \A i \in 1..Len(process) : process[i].kind = "timeout"
    /\ FixedSum(process) < timeout

ClearMarginCompletes ==
    ClearMargin =>
        /\ Outcomes(w) # <<>> => IsCompleted(w)
        /\ mpc \in {"flush", "returned"} =>
              (IsCompleted(w) /\ Outcomes(w)[1].a = timeout - FixedSum(process))

ClearMarginWitness ==
    /\ ClearMargin
    /\ Len(process) = MaxSteps
    /\ mpc = "returned"
    /\ Outcomes(out) = <<Row("completed", 0, timeout - FixedSum(process), 0)>>

\* C15: with root timeout 600 and the steps fixed(20), weighted(0.5,
\* priority), weighted(0.5, priority), the report is the Init row, the rows
\* (20, 580), (290, 290), (145, 145) and Completed with 145 ms left.
Example ==
    <<FunctionWithTimeout(20), FunctionWithDynamiContext(<<1, 2>>, TRUE),
      FunctionWithDynamiContext(<<1, 2>>, TRUE)>>

ExampleReport ==
    <<Row("init", 0, 600, 600), Row("row", 1, 20, 580), Row("row", 2, 290, 290),
      Row("row", 3, 145, 145), Row("completed", 0, 145, 0)>>

ExampleRunsAsDocumented ==
    (timeout = 600 /\ process = Example /\ mpc # "pending") =>
        /\ Len(w) <= Len(ExampleReport)
        /\ w = SubSeq(ExampleReport, 1, Len(w))
        /\ mpc = "returned" => out = ExampleReport

ExampleWitness ==
    /\ timeout = 600
    /\ process = Example
    /\ mpc = "returned"
    /\ wpc = "exit"

\* C16: a fixed-timeout step reports its configured timeout and occupies
\* exactly that long, whatever the root budget has left when it starts, and
\* has set its flag when it reports.
FixedOccupiesLiteral ==
    LET r == Rows(w)
        before(i) == IF i = 1 THEN timeout ELSE r[i - 1].b
    IN \A i \in 1..Len(r) :
           process[i].kind = "timeout" =>
               /\ r[i].a = process[i].timeout
               /\ r[i].b = before(i) - process[i].timeout
               /\ isExecuted[i]

\* A fixed-timeout step that started after the root deadline, and one that
\* started with less left than its timeout.
FixedOccupiesLiteralWitness ==
    LET r == Rows(w)
    IN /\ Len(r) = 3
       /\ process[2].kind = "timeout"
       /\ process[3].kind = "timeout"
       /\ r[1].b > 0
       /\ r[1].b < process[2].timeout
       /\ r[2].b < 0
       /\ r[3].b = r[2].b - process[3].timeout

\* C17: every run terminates: Run eventually returns, having reported
\* exactly one of Completed and Expired, and once an outcome is reported Run
\* never goes back to waiting in the select or to before the run.
Terminal == mpc \in {"expired", "flush", "returned"}

RunTerminates ==
    /\ <>(mpc = "returned")
    /\ [](mpc = "returned" => (IsCompleted(out) \/ IsExpired(out)))
    /\ [][Terminal => Terminal']_vars

\* Run has returned on the root deadline while the worker is still inside a
\* step's sleep.
RunTerminatesWitness ==
    /\ mpc = "returned"
    /\ wpc = "sleeping"
    /\ now < wakeAt
    /\ IsExpired(out)

\* C18: when the outcome is Completed, and already when the completion
\* signal is sent, every configured step has its flag set and its row in the
\* report.
CompletedMeansAllExecuted ==
    (IsCompleted(w) \/ done # <<>> \/ wpc = "exit") =>
        /\ \A j \in 1..Len(process) : isExecuted[j]
        /\ Names(Rows(w)) = [j \in 1..Len(process) |-> j]

CompletedMeansAllExecutedWitness ==
    /\ IsCompleted(out)
    /\ Len(process) = MaxSteps
    /\ \A j \in 1..Len(process) : isExecuted[j]

\* C19: when a priority step is escalated (its share is below 30 and it is
\* given all that is left), nothing is left of the root budget when it
\* completes, and a run with such a step never reports Completed with a
\* positive time left.
Escalated(r, i) ==
    /\ IsWeighted(i, TRUE)
    /\ Share(i, IF i = 1 THEN timeout ELSE r[i - 1].b) < 30

NotRunIsSuffix ==
    (mpc \in {"flush", "returned"} /\ IsExpired(w)) =>
        \E m \in 1..(Len(process) + 1) :
            NotRun(w) = [i \in 1..(Len(process) + 1 - m) |-> m + i - 1]
====
